---- MODULE Spec2Model ----
(***************************************************************************)
(* A model of src/main.py: the image compressor's per-file pipeline        *)
(* (ImageCompressor.compress_image), its resize computation                *)
(* (ImageCompressor._resize_image), the directory loop                     *)
(* (ImageCompressor.scan_and_compress_directory), the loop over the year   *)
(* and image directories (ImageCompressor.process_enem_data) and the       *)
(* statistics counters (ImageCompressor.stats).                            *)
(***************************************************************************)
EXTENDS Integers, Sequences, FiniteSets, TLC

VARIABLES
    config,            \* the CompressionConfig of the ImageCompressor
    image_size,        \* _resize_image: image.size of the argument, <<width, height>>
    resized,           \* _resize_image: the size of the returned image, <<>> before the call
    fs,                \* the directory: path -> content of every existing file
    fs0,               \* the directory as it was when the loop started
    image_files,       \* scan_and_compress_directory: the enumerated candidates
    idx,               \* scan_and_compress_directory: position of the for loop
    pc,                \* scan_and_compress_directory: "start", "scan", "done", or
                       \* "raised" when an exception left the loop ("idle" between
                       \* two calls)
    stats,             \* ImageCompressor.stats
    compressed_files,  \* scan_and_compress_directory: the returned list
    calls,             \* history: one record per compress_image call made so far
    fault,             \* environment: what goes wrong while a given input is processed
    wpc,               \* concurrent workers: position of each worker in compress_image
    reg,               \* concurrent workers: the value each worker has read for its +=
    epc,               \* process_enem_data: "begin", "year" (at the loop over the
                       \* years), "dir" (in the loop over image_dirs), "returned";
                       \* "off" when the method is not running
    total_directories,      \* process_enem_data: the local of that name
    processed_directories,  \* process_enem_data: the local of that name
    image_dirs         \* process_enem_data: how many of this year's image
                       \* directories are still to be scanned

\* the locals of process_enem_data
enem == <<epc, total_directories, processed_directories, image_dirs>>

vars == <<config, image_size, resized, fs, fs0, image_files, idx, pc, stats,
          compressed_files, calls, fault, wpc, reg, enem>>

(***************************************************************************)
(* Bounds of the model.                                                    *)
(***************************************************************************)
MaxDim == 22        \* image widths and heights range over 1..MaxDim
MaxCap == 15        \* max_width and max_height range over None and 1..MaxCap
MaxFiles == 2       \* a run meets at most MaxFiles candidate files
MaxDirs == 2        \* process_enem_data finds at most MaxDirs image directories
NWorkers == 2       \* concurrent compress_image calls on one ImageCompressor

(***************************************************************************)
(* Python floats.  ratio = cap / size is the correctly rounded IEEE-754     *)
(* double quotient of two ints, other * ratio the correctly rounded        *)
(* product of float(other) and ratio, and int() truncates.  A positive     *)
(* double is modelled as [limbs, e]: five digits in base 2^13, most        *)
(* significant first, the first one unbounded, with the value              *)
(* (limbs[1]*Limb^4 + ... + limbs[5]) * 2^e.  A significand of 53 bits is  *)
(* a first digit of 1 followed by four digits of 13 bits.  The operators   *)
(* cover what _resize_image computes when it scales: 1 <= cap < size and   *)
(* other >= 1, all below 2^17 (every intermediate value then stays below   *)
(* 2^31).                                                                  *)
(***************************************************************************)
Limb == 2^13

\* the x >= 1 with 2^(-x) <= a/b < 2^(1-x), for 1 <= a < b
Exponent(a, b) == CHOOSE x \in 1..31 : a * 2^x >= b

\* the number of binary digits of n >= 1
BitLength(n) == CHOOSE k \in 1..31 : n < 2^k

\* limbs plus u at the last digit, carries propagated (the last digit may
\* come in holding more than 13 bits)
AddLast(limbs, u) ==
    LET s5 == limbs[5] + u
        s4 == limbs[4] + s5 \div Limb
        s3 == limbs[3] + s4 \div Limb
        s2 == limbs[2] + s3 \div Limb
        s1 == limbs[1] + s2 \div Limb
    IN  <<s1, s2 % Limb, s3 % Limb, s4 % Limb, s5 % Limb>>

\* a / b (true division of ints), rounded to nearest, ties to even: long
\* division of a * 2^(x+52) by b, one base-2^13 digit at a time
FloatDiv(a, b) ==
    LET x == Exponent(a, b)
        r0 == a * 2^x - b
        d1 == (r0 * Limb) \div b
        r1 == (r0 * Limb) % b
        d2 == (r1 * Limb) \div b
        r2 == (r1 * Limb) % b
        d3 == (r2 * Limb) \div b
        r3 == (r2 * Limb) % b
        d4 == (r3 * Limb) \div b
        r4 == (r3 * Limb) % b
        up == \/ 2 * r4 > b
              \/ 2 * r4 = b /\ d4 % 2 = 1
    IN  [limbs |-> AddLast(<<1, d1, d2, d3, d4>>, IF up THEN 1 ELSE 0),
         e |-> 0 - x - 52]

\* float(n) * f, rounded to nearest, ties to even: the exact product, then
\* the bits below the 53rd dropped.  The product has extra bits too many,
\* as many as the first digit has above its leading one (at most 18 for
\* n < 2^17); they are the low bits of low, the last two digits taken
\* together
FloatMul(n, f) ==
    LET t5 == n * f.limbs[5]
        t4 == n * f.limbs[4] + t5 \div Limb
        t3 == n * f.limbs[3] + t4 \div Limb
        t2 == n * f.limbs[2] + t3 \div Limb
        t1 == n * f.limbs[1] + t2 \div Limb
        low == (t4 % Limb) * Limb + (t5 % Limb)
        extra == BitLength(t1) - 1
        rem == low % 2^extra
        up == /\ extra >= 1
              /\ \/ 2 * rem > 2^extra
                 \/ 2 * rem = 2^extra /\ (low \div 2^extra) % 2 = 1
    IN  [limbs |-> AddLast(<<t1, t2 % Limb, t3 % Limb, 0, low - rem>>,
                           IF up THEN 2^extra ELSE 0),
         e |-> f.e]

\* int(f) for a float f with e <= -52: the digits left of the point are
\* all in the first limb
FloatToInt(f) == f.limbs[1] \div 2^(0 - f.e - 52)

(***************************************************************************)
(* ImageCompressor._resize_image, on sizes.  None and 0 are both falsy in  *)
(* the tests of max_width and max_height; 0 stands for an unset cap.       *)
(***************************************************************************)
\* ratio = cap / size ; other = int(other * ratio)
Scale(other, cap, size) == FloatToInt(FloatMul(other, FloatDiv(cap, size)))

\* the width pass, lines 60-63
WidthPass(cfg, size) ==
    IF cfg.max_width # 0 /\ size[1] > cfg.max_width
    THEN <<cfg.max_width, Scale(size[2], cfg.max_width, size[1])>>
    ELSE size

\* the height pass, lines 65-68
HeightPass(cfg, size) ==
    IF cfg.max_height # 0 /\ size[2] > cfg.max_height
    THEN <<Scale(size[1], cfg.max_height, size[2]), cfg.max_height>>
    ELSE size

resize_image_original_height(cfg, size) ==
    IF cfg.max_width = 0 /\ cfg.max_height = 0 THEN size
    ELSE LET w == WidthPass(cfg, size)
         IN  IF cfg.max_height # 0 /\ size[2] > cfg.max_height
             THEN <<Scale(w[1], cfg.max_height, size[2]), cfg.max_height>>
             ELSE w

\* the size of the image _resize_image returns (the size handed to
\* image.resize when it differs from image.size)
_resize_image(cfg, size) ==
    IF cfg.max_width = 0 /\ cfg.max_height = 0 THEN size
    ELSE HeightPass(cfg, WidthPass(cfg, size))

(***************************************************************************)
(* Paths and files.  A path is [stem, suffix] as pathlib splits its name   *)
(* (the files of a scan are in one directory).  A file's content records   *)
(* which original it was made from, how many encode passes it went         *)
(* through and how many bytes it holds; valid is FALSE for bytes           *)
(* Image.open cannot decode.                                               *)
(***************************************************************************)
\* str.lower() on the suffixes and format names that occur
Lower(s) ==
    CASE s = ".PNG" -> ".png"
      [] s = ".JPEG" -> ".jpeg"
      [] s = ".JPG" -> ".jpg"
      [] s = "JPEG" -> "jpeg"
      [] s = "JPG" -> "jpg"
      [] s = "PNG" -> "png"
      [] s = "WEBP" -> "webp"
      [] s = "BMP" -> "bmp"
      [] s = "TIFF" -> "tiff"
      [] OTHER -> s

\* str.upper() on the format names that occur
Upper(s) ==
    CASE s = "jpeg" -> "JPEG"
      [] s = "jpg" -> "JPG"
      [] s = "png" -> "PNG"
      [] s = "webp" -> "WEBP"
      [] s = "bmp" -> "BMP"
      [] s = "tiff" -> "TIFF"
      [] OTHER -> s

\* Path.with_suffix(s) for a suffix s holding one dot
with_suffix(path, s) == [stem |-> path.stem, suffix |-> s]

\* input_path.with_suffix(f"{input_path.suffix}.bak"): the name is the old
\* name followed by ".bak", which pathlib splits before the last dot
backup_path(path) == [stem |-> path.stem \o path.suffix, suffix |-> ".bak"]

\* the formats image.save accepts (Pillow's registry, reached at line 129
\* with config.format.upper())
SupportedFormats == {"JPEG", "PNG", "WEBP", "BMP", "TIFF"}

\* suffixes scan_and_compress_directory globs for that the model uses
CandidateSuffixes == {".png", ".jpeg", ".JPEG"}

Candidates == {[stem |-> "a", suffix |-> s] : s \in CandidateSuffixes}

\* Path.stat().st_size
st_size(content) == content.size

\* a file as it is before the run: ten bytes of image, or bytes that
\* Image.open cannot decode
Original(path, size, valid) ==
    [origin |-> path, passes |-> 0, valid |-> valid, size |-> size]

\* the bytes image.save writes for an image decoded from content: one byte
\* less than the file the image came from
Encoded(content) ==
    [origin |-> content.origin, passes |-> content.passes + 1, valid |-> TRUE,
     size |-> content.size - 1]

\* the bytes left in an existing file when image.save fails after opening
\* it for writing: the written bytes that had reached the file
Truncated(content, written) ==
    [origin |-> content.origin, passes |-> content.passes, valid |-> FALSE,
     size |-> written]

Write(files, path, content) ==
    [q \in DOMAIN files \cup {path} |-> IF q = path THEN content ELSE files[q]]

Remove(files, path) == [q \in DOMAIN files \ {path} |-> files[q]]

Rename(files, from, to) == Write(Remove(files, from), to, files[from])

\* what the environment does to a file and to the call that processes it:
\* the file vanished after the glob, is empty, holds five bytes that are no
\* image, image.save fails before or after writing three bytes, or a rename
\* or unlink fails
FaultKinds == {"none", "missing", "empty", "corrupt", "encode", "encode_partial", "fsop"}

\* the bytes a failing image.save had written
Written(flt) == IF flt = "encode_partial" THEN 3 ELSE 0

ZeroStats == [processed |-> 0, errors |-> 0, total_original_size |-> 0,
              total_compressed_size |-> 0]

(***************************************************************************)
(* ImageCompressor.compress_image.  A frame is the state of one call       *)
(* between two statements: the directory, the counters, whether an         *)
(* exception is on its way to the except clause, output_path, and ops, the *)
(* log of what the call did to the directory: <<"rename", from, to>>,      *)
(* <<"save", path>>, <<"save_failed", path>> and <<"unlink", path>>.       *)
(***************************************************************************)
\* output_path=None
NoPath == [stem |-> "", suffix |-> ""]

\* lines 102-104
format_changed(cfg, input_path) ==
    Lower(input_path.suffix) # "." \o Lower(cfg.format)

\* lines 114-122
plan_output(cfg, input_path, output_path) ==
    IF output_path # NoPath THEN output_path
    ELSE IF format_changed(cfg, input_path)
         THEN with_suffix(input_path, "." \o Lower(cfg.format))
    ELSE IF cfg.backup_original
         THEN [stem |-> input_path.stem \o cfg.output_suffix,
               suffix |-> "." \o Lower(cfg.format)]
    ELSE with_suffix(input_path, "." \o Lower(cfg.format))

\* the condition of line 124
backup_first(cfg, input_path) ==
    /\ cfg.backup_original
    /\ cfg.output_suffix = ""
    /\ ~format_changed(cfg, input_path)

\* lines 124-126
backup_rename(cfg, input_path, flt, fr) ==
    IF fr.exc \/ ~backup_first(cfg, input_path) THEN fr
    ELSE IF flt = "fsop" THEN [fr EXCEPT !.exc = TRUE]
    ELSE [fr EXCEPT
            !.fs = Rename(@, input_path, backup_path(input_path)),
            !.ops = Append(@, <<"rename", input_path, backup_path(input_path)>>)]

\* lines 128-129: image.save looks config.format.upper() up, opens
\* output_path for writing and encodes; when encoding fails it removes the
\* file if it had created it and leaves an existing file cut short
save(cfg, image, flt, fr) ==
    IF fr.exc THEN fr
    ELSE IF Upper(cfg.format) \notin SupportedFormats
         THEN [fr EXCEPT !.exc = TRUE,
                         !.ops = Append(@, <<"save_failed", fr.output_path>>)]
    ELSE IF flt \in {"encode", "encode_partial"}
         THEN [fr EXCEPT
                 !.exc = TRUE,
                 !.fs = IF fr.output_path \in DOMAIN @
                        THEN Write(@, fr.output_path,
                                   Truncated(@[fr.output_path], Written(flt)))
                        ELSE @,
                 !.ops = Append(@, <<"save_failed", fr.output_path>>)]
    ELSE [fr EXCEPT
            !.fs = Write(@, fr.output_path, Encoded(image)),
            !.ops = Append(@, <<"save", fr.output_path>>)]

should_delete_drop_flag(cfg, input_path, output_path, files) ==
    /\ format_changed(cfg, input_path)
    /\ input_path # output_path
    /\ input_path \in DOMAIN files

\* the condition of lines 131-134
should_delete(cfg, input_path, output_path, files) ==
    /\ format_changed(cfg, input_path)
    /\ cfg.delete_original_on_format_change
    /\ input_path # output_path
    /\ input_path \in DOMAIN files

\* lines 131-136
delete_original(cfg, input_path, flt, fr) ==
    IF fr.exc \/ ~should_delete(cfg, input_path, fr.output_path, fr.fs) THEN fr
    ELSE IF flt = "fsop" THEN [fr EXCEPT !.exc = TRUE]
    ELSE [fr EXCEPT
            !.fs = Remove(@, input_path),
            !.ops = Append(@, <<"unlink", input_path>>)]

\* lines 138-140
record_success(fr) ==
    IF fr.exc THEN fr
    ELSE [fr EXCEPT
            !.stats = [@ EXCEPT
                         !.total_compressed_size = @ + st_size(fr.fs[fr.output_path]),
                         !.processed = @ + 1]]

statements_delete_first(cfg, input_path, image, flt, fr) ==
    CHOOSE recorded \in
        {record_success(saved) :
            saved \in {save(cfg, image, flt, deleted) :
                deleted \in {delete_original(cfg, input_path, flt, renamed) :
                    renamed \in {backup_rename(cfg, input_path, flt, fr)}}}} : TRUE

statements_backup_last(cfg, input_path, image, flt, fr) ==
    CHOOSE recorded \in
        {record_success(renamed) :
            renamed \in {backup_rename(cfg, input_path, flt, deleted) :
                deleted \in {delete_original(cfg, input_path, flt, saved) :
                    saved \in {save(cfg, image, flt, fr)}}}} : TRUE

\* lines 124-140 in the order the code runs them: the backup rename, the
\* save, the deletion of the original, the counters (each statement's frame
\* is bound to its value before the next statement reads it)
statements(cfg, input_path, image, flt, fr) ==
    CHOOSE recorded \in
        {record_success(deleted) :
            deleted \in {delete_original(cfg, input_path, flt, saved) :
                saved \in {save(cfg, image, flt, renamed) :
                    renamed \in {backup_rename(cfg, input_path, flt, fr)}}}} : TRUE

except_reraise(fr) ==
    [fs |-> fr.fs, stats |-> fr.stats, ret |-> FALSE, raised |-> fr.exc,
     ops |-> fr.ops, output_path |-> fr.output_path]

\* lines 150-155: return True, or the except clause
except_clause(fr) ==
    [fs |-> fr.fs,
     stats |-> IF fr.exc THEN [fr.stats EXCEPT !.errors = @ + 1] ELSE fr.stats,
     ret |-> ~fr.exc, raised |-> FALSE,
     ops |-> fr.ops, output_path |-> fr.output_path]

\* compress_image(input_path, output_path) on directory files with counters
\* st; flt is what the environment does to this call
compress_image(files, st, cfg, input_path, output_path, flt) ==
    IF input_path \notin DOMAIN files
    THEN [fs |-> files, stats |-> st, ret |-> FALSE, raised |-> FALSE,
          ops |-> <<>>, output_path |-> output_path]
    ELSE LET image == files[input_path]
             counted == [st EXCEPT !.total_original_size = @ + st_size(image)]
         IN  IF ~image.valid
             THEN except_clause([fs |-> files, stats |-> counted, exc |-> TRUE,
                                 ops |-> <<>>, output_path |-> output_path])
             ELSE CHOOSE result \in
                      {except_clause(fr) :
                          fr \in {statements(cfg, input_path, image, flt,
                                     [fs |-> files, stats |-> counted, exc |-> FALSE,
                                      ops |-> <<>>,
                                      output_path |->
                                          plan_output(cfg, input_path, output_path)])}}
                      : TRUE

(***************************************************************************)
(* A run of scan_and_compress_directory over one directory.                *)
(***************************************************************************)
Configs ==
    [quality : {85}, format : {"JPEG", "jpeg", "JPG"}, max_width : {0}, max_height : {0},
     backup_original : BOOLEAN, output_suffix : {"", "_compressed"},
     delete_original_on_format_change : BOOLEAN]

Range(seq) == {seq[i] : i \in 1..Len(seq)}

\* the lists lines 166-169 can build: distinct candidates, in any order
FileLists ==
    UNION {{l \in [1..n -> Candidates] : \A i, j \in 1..n : l[i] = l[j] => i = j}
           : n \in 0..MaxFiles}

\* the directory when the loop starts: every enumerated file, except those
\* that vanished after the glob
StartFiles(files, flt) ==
    [p \in {q \in Range(files) : flt[q] # "missing"} |->
        CASE flt[p] = "empty" -> Original(p, 0, FALSE)
          [] flt[p] = "corrupt" -> Original(p, 5, FALSE)
          [] OTHER -> Original(p, 10, TRUE)]

Init ==
    /\ config \in Configs
    /\ image_files = <<>>
    /\ fault = <<>>
    /\ fs0 = <<>>
    /\ fs = <<>>
    /\ idx = 1
    /\ pc = "start"
    /\ stats = ZeroStats
    /\ compressed_files = <<>>
    /\ calls = <<>>
    /\ image_size = <<>>
    /\ resized = <<>>
    /\ wpc = <<>>
    /\ reg = <<>>
    /\ epc = "off"
    /\ total_directories = 0
    /\ processed_directories = 0
    /\ image_dirs = 0

\* lines 159-171, for an existing directory: the call's argument is drawn
\* here, as the list the globs build from it, the files it holds when the
\* loop starts, and what will go wrong with each
Glob ==
    /\ pc = "start"
    /\ \E files \in FileLists : \E flt \in [Range(files) -> FaultKinds] :
           /\ Len(calls) + Len(files) <= MaxFiles
           /\ image_files' = files
           /\ fault' = flt
           /\ fs0' = StartFiles(files, flt)
           /\ fs' = StartFiles(files, flt)
    /\ pc' = "scan"
    /\ UNCHANGED <<config, idx, stats, compressed_files, calls, image_size, resized,
                   wpc, reg, enem>>

\* lines 173-175: one iteration of the for loop
LoopBody ==
    /\ pc = "scan"
    /\ idx <= Len(image_files)
    /\ \E r \in {compress_image(fs, stats, config, image_files[idx], NoPath,
                                fault[image_files[idx]])} :
           /\ fs' = r.fs
           /\ stats' = r.stats
           /\ calls' = Append(calls, [input |-> image_files[idx], output |-> r.output_path,
                                      ret |-> r.ret, raised |-> r.raised, ops |-> r.ops,
                                      before |-> fs, after |-> r.fs,
                                      stats_before |-> stats, stats_after |-> r.stats])
           /\ IF r.raised
              THEN /\ pc' = "raised"
                   /\ UNCHANGED <<idx, compressed_files>>
              ELSE /\ pc' = pc
                   /\ idx' = idx + 1
                   /\ compressed_files' =
                        IF r.ret THEN Append(compressed_files, image_files[idx])
                        ELSE compressed_files
    /\ UNCHANGED <<config, image_files, fault, fs0, image_size, resized, wpc, reg, enem>>

\* line 177
LoopExit ==
    /\ pc = "scan"
    /\ idx > Len(image_files)
    /\ pc' = "done"
    /\ UNCHANGED <<config, image_files, fault, fs0, fs, idx, stats, compressed_files,
                   calls, image_size, resized, wpc, reg, enem>>

Next == Glob \/ LoopBody \/ LoopExit

Spec == Init /\ [][Next]_vars

\* the interpreter runs the loop to its end
FairSpec == Spec /\ WF_vars(Next)

(***************************************************************************)
(* A run of process_enem_data: one scan_and_compress_directory call after  *)
(* the other on the same ImageCompressor, each starting from the counters  *)
(* the one before it left.  A year whose directory is missing or holds no  *)
(* image directory changes nothing and takes no step.                      *)
(***************************************************************************)
InitEnem ==
    /\ config \in Configs
    /\ image_files = <<>>
    /\ fault = <<>>
    /\ fs0 = <<>>
    /\ fs = <<>>
    /\ idx = 1
    /\ pc = "idle"
    /\ stats = ZeroStats
    /\ compressed_files = <<>>
    /\ calls = <<>>
    /\ image_size = <<>>
    /\ resized = <<>>
    /\ wpc = <<>>
    /\ reg = <<>>
    /\ epc = "begin"
    /\ total_directories = 0
    /\ processed_directories = 0
    /\ image_dirs = 0

\* lines 184-186: base_path does not exist
BaseNotFound ==
    /\ epc = "begin"
    /\ epc' = "returned"
    /\ UNCHANGED <<config, image_size, resized, fs, fs0, image_files, idx, pc, stats,
                   compressed_files, calls, fault, wpc, reg, total_directories,
                   processed_directories, image_dirs>>

\* lines 191-205: the next year whose directory holds image directories, n
\* of them, up to the first scan_and_compress_directory call
YearLoop ==
    /\ epc \in {"begin", "year"}
    /\ \E n \in 1..(MaxDirs - total_directories) :
           /\ total_directories' = total_directories + n
           /\ image_dirs' = n
    /\ epc' = "dir"
    /\ pc' = "start"
    /\ UNCHANGED <<config, image_size, resized, fs, fs0, image_files, idx, stats,
                   compressed_files, calls, fault, wpc, reg, processed_directories>>

\* line 206 after a scan has returned, and lines 203-205 for the next
\* image directory of the year if there is one: a new call, with a new
\* compressed_files and a new loop
DirLoop ==
    /\ epc = "dir"
    /\ pc = "done"
    /\ processed_directories' = processed_directories + 1
    /\ image_dirs' = image_dirs - 1
    /\ IF image_dirs > 1
       THEN epc' = "dir" /\ pc' = "start"
       ELSE epc' = "year" /\ pc' = "idle"
    /\ idx' = 1
    /\ compressed_files' = <<>>
    /\ UNCHANGED <<config, image_size, resized, fs, fs0, image_files, stats, calls,
                   fault, wpc, reg, total_directories>>

\* dict.update with the two directory counters
update(st, total, processed) ==
    [k \in DOMAIN st \cup {"total_directories", "processed_directories"} |->
        CASE k = "total_directories" -> total
          [] k = "processed_directories" -> processed
          [] OTHER -> st[k]]

\* lines 208-213, when the loop over the years has ended
UpdateStats ==
    /\ epc \in {"begin", "year"}
    /\ stats' = update(stats, total_directories, processed_directories)
    /\ epc' = "returned"
    /\ UNCHANGED <<config, image_size, resized, fs, fs0, image_files, idx, pc,
                   compressed_files, calls, fault, wpc, reg, total_directories,
                   processed_directories, image_dirs>>

NextEnem ==
    BaseNotFound \/ YearLoop \/ Glob \/ LoopBody \/ LoopExit \/ DirLoop \/ UpdateStats

SpecEnem == InitEnem /\ [][NextEnem]_vars

(***************************************************************************)
(* _resize_image on its own: every size and every pair of caps.            *)
(***************************************************************************)
InitResize ==
    /\ config \in [quality : {85}, format : {"JPEG"}, max_width : 0..MaxCap,
                   max_height : 0..MaxCap, backup_original : {FALSE},
                   output_suffix : {"_compressed"},
                   delete_original_on_format_change : {TRUE}]
    /\ image_size \in (1..MaxDim) \X (1..MaxDim)
    /\ resized = <<>>
    /\ image_files = <<>>
    /\ fault = <<>>
    /\ fs0 = <<>>
    /\ fs = <<>>
    /\ idx = 1
    /\ pc = "resize"
    /\ stats = ZeroStats
    /\ compressed_files = <<>>
    /\ calls = <<>>
    /\ wpc = <<>>
    /\ reg = <<>>
    /\ epc = "off"
    /\ total_directories = 0
    /\ processed_directories = 0
    /\ image_dirs = 0

\* line 113
Resize ==
    /\ pc = "resize"
    /\ resized = <<>>
    /\ resized' = _resize_image(config, image_size)
    /\ UNCHANGED <<config, image_size, image_files, fault, fs0, fs, idx, pc, stats,
                   compressed_files, calls, wpc, reg, enem>>

NextResize == Resize

SpecResize == InitResize /\ [][NextResize]_vars

(***************************************************************************)
(* NWorkers threads, each in a successful compress_image call on a file of *)
(* its own, sharing one ImageCompressor.  The calls meet only in the three *)
(* statements stats[k] += v, each of which reads stats[k] and then stores  *)
(* the sum; nothing orders one thread's read and store against another's.  *)
(***************************************************************************)
Workers == 1..NWorkers

\* the counters in the order lines 100, 139 and 140 update them
Counters == <<"total_original_size", "total_compressed_size", "processed">>

\* what worker w adds at statement n: the sizes of an original and of its
\* encoding, and one
Addend(w, n) ==
    LET original == Original(w, 10, TRUE)
    IN  CASE n = 1 -> st_size(original)
          [] n = 2 -> st_size(Encoded(original))
          [] OTHER -> 1

InitWorkers ==
    /\ config \in [quality : {85}, format : {"JPEG"}, max_width : {0}, max_height : {0},
                   backup_original : {FALSE}, output_suffix : {"_compressed"},
                   delete_original_on_format_change : {TRUE}]
    /\ wpc = [w \in Workers |-> [stmt |-> 1, phase |-> "load"]]
    /\ reg = [w \in Workers |-> 0]
    /\ stats = ZeroStats
    /\ pc = "workers"
    /\ image_size = <<>>
    /\ resized = <<>>
    /\ image_files = <<>>
    /\ fault = <<>>
    /\ fs0 = <<>>
    /\ fs = <<>>
    /\ idx = 1
    /\ compressed_files = <<>>
    /\ calls = <<>>
    /\ epc = "off"
    /\ total_directories = 0
    /\ processed_directories = 0
    /\ image_dirs = 0

\* the read of stats[k] in stats[k] += v
Load(w) ==
    /\ pc = "workers"
    /\ wpc[w].stmt <= Len(Counters)
    /\ wpc[w].phase = "load"
    /\ reg' = [reg EXCEPT ![w] = stats[Counters[wpc[w].stmt]]]
    /\ wpc' = [wpc EXCEPT ![w].phase = "store"]
    /\ UNCHANGED <<config, stats, pc, image_size, resized, image_files, fault, fs0, fs,
                   idx, compressed_files, calls, enem>>

\* the store of the sum in stats[k] += v
Store(w) ==
    /\ pc = "workers"
    /\ wpc[w].stmt <= Len(Counters)
    /\ wpc[w].phase = "store"
    /\ stats' = [stats EXCEPT ![Counters[wpc[w].stmt]] = reg[w] + Addend(w, wpc[w].stmt)]
    /\ wpc' = [wpc EXCEPT ![w] = [stmt |-> @.stmt + 1, phase |-> "load"]]
    /\ UNCHANGED <<config, reg, pc, image_size, resized, image_files, fault, fs0, fs,
                   idx, compressed_files, calls, enem>>

NextWorkers == \E w \in Workers : Load(w) \/ Store(w)

SpecWorkers == InitWorkers /\ [][NextWorkers]_vars

(***************************************************************************)
(* Properties of _resize_image, under SpecResize.                          *)
(***************************************************************************)
\* n / d rounded down
Floor(n, d) == n \div d

\* what int(x * (c / y)) can be for n = x * c and d = y: n / d rounded down,
\* or one less when n / d is whole
NearFloor(n, d) == {Floor(n, d)} \cup (IF n % d = 0 THEN {Floor(n, d) - 1} ELSE {})

\* the final size is within every cap that is set
WithinCaps(size) ==
    /\ config.max_width # 0 => size[1] <= config.max_width
    /\ config.max_height # 0 => size[2] <= config.max_height

\* C9 as stated: the result of _resize_image is the two caps applied in
\* sequence, each scaling the other dimension to exactly
\* floor(other * cap / dimension), the height cap acting on the result of the
\* width pass; no cap set leaves the size alone; no set cap is exceeded.
C9_ExactFloor ==
    resized # <<>> =>
        LET w == image_size[1]
            h == image_size[2]
            W == config.max_width
            H == config.max_height
            mid == IF W # 0 /\ w > W THEN <<W, Floor(h * W, w)>> ELSE <<w, h>>
            fin == IF H # 0 /\ mid[2] > H THEN <<Floor(mid[1] * H, mid[2]), H>> ELSE mid
        IN  /\ (W = 0 /\ H = 0 => resized = image_size)
            /\ resized = fin
            /\ WithinCaps(resized)

\* C9 amended: as C9, but each scaled dimension is floor(other * cap /
\* dimension) or, when other * cap / dimension is a whole number, possibly
\* one less (the quotient is computed in floating point and truncated).
C9_Thm ==
    resized # <<>> =>
        LET w == image_size[1]
            h == image_size[2]
            W == config.max_width
            H == config.max_height
            mids == IF W # 0 /\ w > W
                    THEN {<<W, hm>> : hm \in NearFloor(h * W, w)}
                    ELSE {<<w, h>>}
            fins(mid) == IF H # 0 /\ mid[2] > H
                         THEN {<<wf, H>> : wf \in NearFloor(mid[1] * H, mid[2])}
                         ELSE {mid}
        IN  /\ (W = 0 /\ H = 0 => resized = image_size)
            /\ WidthPass(config, image_size) \in mids
            /\ resized \in fins(WidthPass(config, image_size))
            /\ WithinCaps(resized)

\* both passes acted, and the width pass fell one short of the exact floor
C9_Witness ==
    /\ resized # <<>>
    /\ config.max_width # 0 /\ image_size[1] > config.max_width
    /\ config.max_height # 0
    /\ WidthPass(config, image_size)[2] > config.max_height
    /\ WidthPass(config, image_size)[2]
         = Floor(image_size[2] * config.max_width, image_size[1]) - 1
    /\ resized[2] = config.max_height

\* C10: for a size of at least 1x1 and caps of at least 1, both dimensions
\* _resize_image passes to image.resize are at least 1.
C10_PositiveDimensions ==
    resized # <<>> /\ resized # image_size => resized[1] >= 1 /\ resized[2] >= 1

(***************************************************************************)
(* Properties of compress_image and of the directory loop, under Spec,     *)
(* FairSpec and SpecEnem.  They read calls, the record of every call made  *)
(* so far.                                                                 *)
(***************************************************************************)
Call(k) == calls[k]

\* the call logged a successful save before its i-th operation
SavedBefore(c, i) == \E j \in 1..(i - 1) : c.ops[j][1] = "save"

\* the operation takes the file away from path: renames it or unlinks it
TakesAway(op, path) == op[1] \in {"rename", "unlink"} /\ op[2] = path

\* the call's image.save raised
EncodeFailed(c) == \E i \in 1..Len(c.ops) : c.ops[i][1] = "save_failed"

\* the call unlinked its input
Unlinked(c) == \E i \in 1..Len(c.ops) : c.ops[i] = <<"unlink", c.input>>

\* C1: outside the backup-first case (backup_original, empty output_suffix,
\* format unchanged) a call neither renames nor unlinks its input before its
\* save has succeeded, and when its save fails the input still exists under
\* its path.
C1_Thm ==
    \A k \in 1..Len(calls) :
        ~backup_first(config, Call(k).input) =>
            /\ \A i \in 1..Len(Call(k).ops) :
                   TakesAway(Call(k).ops[i], Call(k).input) => SavedBefore(Call(k), i)
            /\ EncodeFailed(Call(k)) => Call(k).input \in DOMAIN Call(k).after

\* a conversion whose original was to be deleted, and whose save failed:
\* the original is still there, untouched
C1_Witness ==
    \E k \in 1..Len(calls) :
        /\ ~backup_first(config, Call(k).input)
        /\ format_changed(config, Call(k).input)
        /\ config.delete_original_on_format_change
        /\ Upper(config.format) \in SupportedFormats
        /\ EncodeFailed(Call(k))
        /\ Call(k).input \in DOMAIN Call(k).after
        /\ Call(k).after[Call(k).input] = Call(k).before[Call(k).input]

\* C2: a call that returns False adds one to errors and leaves processed
\* alone, a call that returns True adds one to processed and leaves errors
\* alone, and when a scan has returned, and when process_enem_data has,
\* processed + errors is the number of files submitted so far.
C2_EveryCallCounted ==
    /\ \A k \in 1..Len(calls) :
           LET b == Call(k).stats_before
               a == Call(k).stats_after
           IN  IF Call(k).ret
               THEN a.processed = b.processed + 1 /\ a.errors = b.errors
               ELSE a.errors = b.errors + 1 /\ a.processed = b.processed
    /\ pc = "done" \/ epc = "returned" => stats.processed + stats.errors = Len(calls)

\* C3: no call lets an exception out, and the loop ends having called
\* compress_image once on every enumerated file, in order.
C3_Thm ==
    /\ [](pc # "raised")
    /\ <>(/\ pc = "done"
          /\ Len(calls) = Len(image_files)
          /\ \A i \in 1..Len(image_files) : calls[i].input = image_files[i])

\* the first file failed with an exception and the next one was compressed
C3_Witness ==
    /\ pc = "done"
    /\ Len(calls) >= 2
    /\ ~Call(1).ret
    /\ Call(1).stats_after.errors = 1
    /\ Call(2).ret

\* C4: a successful call (no explicit output path) unlinks its input exactly
\* when the format changed, delete_original_on_format_change is set and the
\* output path differs from the input path; an input that was unlinked is
\* gone, and one that was not is either still there or was moved to its
\* backup path.
C4_Thm ==
    \A k \in 1..Len(calls) :
        Call(k).ret =>
            LET input == Call(k).input
                changed == Lower(input.suffix) # "." \o Lower(config.format)
            IN  /\ Unlinked(Call(k)) <=>
                       /\ changed
                       /\ config.delete_original_on_format_change
                       /\ Call(k).output # input
                /\ Unlinked(Call(k)) => input \notin DOMAIN Call(k).after
                /\ ~Unlinked(Call(k)) =>
                       \/ input \in DOMAIN Call(k).after
                       \/ /\ backup_path(input) \in DOMAIN Call(k).after
                          /\ Call(k).after[backup_path(input)] = Call(k).before[input]

\* a successful conversion that unlinked its original
C4_Witness ==
    \E k \in 1..Len(calls) :
        /\ Call(k).ret
        /\ Unlinked(Call(k))
        /\ Call(k).output # Call(k).input
        /\ Call(k).output \in DOMAIN Call(k).after

\* the backup-first case ended well: the rename came first, then the save
BackedUpFirst(c, out) ==
    /\ c.ops = <<<<"rename", c.input, backup_path(c.input)>>, <<"save", out>>>>
    /\ c.output = out
    /\ backup_path(c.input) \in DOMAIN c.after
    /\ c.after[backup_path(c.input)] = c.before[c.input]
    /\ out \in DOMAIN c.after
    /\ c.after[out] = Encoded(c.before[c.input])

\* C5 as stated: in the backup-first case a successful call has renamed the
\* input to its .bak path and then saved to the input path itself, so the
\* original bytes are at the .bak path and the compressed ones at the input
\* path.
C5_SavedToInputPath ==
    \A k \in 1..Len(calls) :
        backup_first(config, Call(k).input) /\ Call(k).ret =>
            BackedUpFirst(Call(k), Call(k).input)

\* C5 amended: as C5, but the save goes to the input's stem followed by the
\* lower-cased format name as suffix, which is the input path exactly when
\* the input's suffix is already in lower case.
C5_Thm ==
    \A k \in 1..Len(calls) :
        backup_first(config, Call(k).input) /\ Call(k).ret =>
            LET input == Call(k).input
                out == [stem |-> input.stem, suffix |-> "." \o Lower(config.format)]
            IN  /\ BackedUpFirst(Call(k), out)
                /\ out = input <=> input.suffix = Lower(input.suffix)

\* a backup-first call on an upper-case suffix ended well
C5_Witness ==
    \E k \in 1..Len(calls) :
        /\ backup_first(config, Call(k).input)
        /\ Call(k).ret
        /\ Call(k).input.suffix # Lower(Call(k).input.suffix)
        /\ backup_path(Call(k).input) \in DOMAIN Call(k).after

\* C6: with a target format outside the supported set nothing is processed:
\* no compress_image call works on a file of the directory, the directory is
\* as it was and every counter is zero.
C6_FailsFast ==
    Upper(config.format) \notin SupportedFormats =>
        /\ \A k \in 1..Len(calls) : Call(k).input \notin DOMAIN Call(k).before
        /\ fs = fs0
        /\ stats = ZeroStats

RECURSIVE Run(_, _, _, _)
\* lines 173-177 as a function of the order: the directory and counters
\* after compress_image went through list, and what each file came to
Run(list, files, st, results) ==
    IF list = <<>> THEN [fs |-> files, stats |-> st, results |-> results]
    ELSE LET r == compress_image(files, st, config, Head(list), NoPath, fault[Head(list)])
         IN  Run(Tail(list), r.fs, r.stats,
                 results \cup
                   {[input |-> Head(list), ret |-> r.ret, output |-> r.output_path,
                     written |-> IF r.ret THEN <<r.fs[r.output_path]>> ELSE <<>>,
                     original_size |-> r.stats.total_original_size - st.total_original_size,
                     compressed_size |->
                        r.stats.total_compressed_size - st.total_compressed_size]})

\* every order in which the enumerated files can be processed
Orders ==
    {l \in [1..Len(image_files) -> Range(image_files)] :
        \A i, j \in 1..Len(image_files) : l[i] = l[j] => i = j}

\* the paths an operation writes, moves or removes
Touched(op) == IF op[1] = "rename" THEN {op[2], op[3]} ELSE {op[2]}

\* C8: the run's outcome per file, its final directory and its counters are
\* the same for every processing order, and no call writes, renames or
\* removes another enumerated file.
C8_OrderIndependent ==
    pc = "done" =>
        /\ \A l \in Orders :
               Run(l, fs0, ZeroStats, {}) = Run(image_files, fs0, ZeroStats, {})
        /\ \A k \in 1..Len(calls) : \A i \in 1..Len(Call(k).ops) :
               Touched(Call(k).ops[i]) \cap (Range(image_files) \ {Call(k).input}) = {}

(***************************************************************************)
(* Properties of the shared counters, under SpecWorkers.                   *)
(***************************************************************************)
RECURSIVE SumOfAddends(_, _)
\* what workers 1..w add at statement n
SumOfAddends(n, w) == IF w = 0 THEN 0 ELSE Addend(w, n) + SumOfAddends(n, w - 1)

\* C7: when all NWorkers successful calls have finished, processed is
\* NWorkers, errors is 0 and the byte totals are the sums of the workers'
\* sizes.
C7_NoLostUpdate ==
    (\A w \in Workers : wpc[w].stmt > Len(Counters)) =>
        /\ stats.processed = NWorkers
        /\ stats.errors = 0
        /\ stats.total_original_size = SumOfAddends(1, NWorkers)
        /\ stats.total_compressed_size = SumOfAddends(2, NWorkers)

====
